---- MODULE Spec2Model ----
(***************************************************************************)
(* Admin backend for timed multiple-choice tests (Express + Mongoose).     *)
(*                                                                         *)
(* src/api/index.js holds four revisions of the application, one after the *)
(* other.  Every endpoint is modelled from the latest revision that        *)
(* defines it, together with the adminAuth of that revision:               *)
(*   lines 213-443  GET /, POST /admin/login,                              *)
(*                  POST /admin/create-test-with-questions,                *)
(*                  GET /admin/tests, DELETE /admin/delete-test/:testId    *)
(*   lines 591-775  POST /admin/add-question/:testId,                      *)
(*                  DELETE /admin/delete-question/:id,                     *)
(*                  GET /admin/dashboard                                   *)
(*                                                                         *)
(* A handler runs from its request to its response in one step.  Strings   *)
(* the code inspects character by character (dates, titles, statements,    *)
(* option texts) are sequences of one-character strings.  An instant (a JS *)
(* Date) is a record [day, ms]: days since 1970-01-01 and milliseconds     *)
(* within that day, so that the code's millisecond arithmetic is kept.     *)
(* An optional JS value is <<>> (undefined) or <<v>>.                      *)
(***************************************************************************)
EXTENDS Integers, Sequences, FiniteSets, TLC

VARIABLES
    tests,       \* the Test collection: a set of documents
    questions,   \* the Question collection: a set of documents
    nextId,      \* the next ObjectId the driver hands out
    readyState,  \* mongoose.connection.readyState
    req,         \* the request handled last
    res,         \* the response sent to it
    inflight,    \* create requests between their findOne and their Test.create
    callers,     \* where each client's call of connectDB stands
    connects     \* the number of mongoose.connect calls made so far

vars == <<tests, questions, nextId, readyState, req, res, inflight, callers,
          connects>>

(***************************************************************************)
(* Bounds of the model.                                                    *)
(***************************************************************************)
\* ObjectIds the driver can hand out to Test and single Question documents.
MaxIds == 2
\* A failing batch write has stored at most this many documents.
MaxFailPoint == 2
\* Clients with a request under way at the same time.
MaxClients == 3
\* mongoose.connect is called at most this many times.
MaxConnects == 3

(***************************************************************************)
(* Strings as sequences of characters.                                     *)
(***************************************************************************)
Digits == <<"0", "1", "2", "3", "4", "5", "6", "7", "8", "9">>

IsDigit(c) == \E i \in 1..10 : Digits[i] = c

DigitVal(c) == (CHOOSE i \in 1..10 : Digits[i] = c) - 1

DigitChar(n) == Digits[n + 1]

\* String.prototype.includes for a one-character needle
Includes(s, c) == \E i \in 1..Len(s) : s[i] = c

\* s.split(c)[0]: the part of s before the first c
SplitFirst(s, c) ==
    IF Includes(s, c)
    THEN SubSeq(s, 1, (CHOOSE i \in 1..Len(s) :
                          s[i] = c /\ \A j \in 1..(i - 1) : s[j] # c) - 1)
    ELSE s

\* String.prototype.trim (blanks only)
Trim(s) ==
    IF \A i \in 1..Len(s) : s[i] = " "
    THEN <<>>
    ELSE LET a == CHOOSE i \in 1..Len(s) :
                      s[i] # " " /\ \A j \in 1..(i - 1) : s[j] = " "
             b == CHOOSE i \in 1..Len(s) :
                      s[i] # " " /\ \A j \in (i + 1)..Len(s) : s[j] = " "
         IN  SubSeq(s, a, b)

\* /^\d{4}-\d{2}-\d{2}$/.test(date)
MatchesDatePattern(s) ==
    /\ Len(s) = 10
    /\ \A i \in {1, 2, 3, 4, 6, 7, 9, 10} : IsDigit(s[i])
    /\ s[5] = "-"
    /\ s[8] = "-"

(***************************************************************************)
(* Instants.                                                               *)
(***************************************************************************)
MS_PER_DAY == 86400000

\* 5.5 * 60 * 60 * 1000
IST_OFFSET_MS == 19800000

\* the value of an invalid Date (getTime() is NaN)
NaN == [day |-> 0, ms |-> -1]

\* new Date(t.getTime() + delta), for |delta| below two days
AddMs(t, delta) ==
    LET m == t.ms + delta
    IN  IF m < 0 THEN [day |-> t.day - 1, ms |-> m + MS_PER_DAY]
        ELSE IF m >= MS_PER_DAY
             THEN IF m >= 2 * MS_PER_DAY
                  THEN [day |-> t.day + 2, ms |-> m - 2 * MS_PER_DAY]
                  ELSE [day |-> t.day + 1, ms |-> m - MS_PER_DAY]
             ELSE [day |-> t.day, ms |-> m]

\* Day number of year y, month m, day d (d may run past the month's end)
DayFromYMD(y, m, d) ==
    LET yy  == IF m <= 2 THEN y - 1 ELSE y
        era == yy \div 400
        yoe == yy - era * 400
        mp  == IF m > 2 THEN m - 3 ELSE m + 9
        doy == (153 * mp + 2) \div 5
        doe == yoe * 365 + yoe \div 4 - yoe \div 100 + doy
    IN  era * 146097 + doe - 719468 + (d - 1)

\* Year, month and day of a day number
YMDFromDay(n) ==
    LET z   == n + 719468
        era == z \div 146097
        doe == z - era * 146097
        yoe == (doe - doe \div 1460 + doe \div 36524 - doe \div 146096) \div 365
        doy == doe - (365 * yoe + yoe \div 4 - yoe \div 100)
        mp  == (5 * doy + 2) \div 153
        d   == doy - (153 * mp + 2) \div 5 + 1
        m   == IF mp < 10 THEN mp + 3 ELSE mp - 9
        y   == yoe + era * 400 + (IF m <= 2 THEN 1 ELSE 0)
    IN  [y |-> y, m |-> m, d |-> d]

\* new Date(date + "T00:00:00+05:30") for a date matching the pattern.  The
\* engine takes months 01..12 and days 01..31; a day past the month's end
\* runs into the next month; anything else is an invalid Date.
ParseDateIST(s) ==
    LET y == 1000 * DigitVal(s[1]) + 100 * DigitVal(s[2])
               + 10 * DigitVal(s[3]) + DigitVal(s[4])
        m == 10 * DigitVal(s[6]) + DigitVal(s[7])
        d == 10 * DigitVal(s[9]) + DigitVal(s[10])
    IN  IF m \in 1..12 /\ d \in 1..31
        THEN AddMs([day |-> DayFromYMD(y, m, d), ms |-> 0], -IST_OFFSET_MS)
        ELSE NaN

IsNaN(t) == t.ms < 0

Pad2(n) == <<DigitChar(n \div 10), DigitChar(n % 10)>>

Pad3(n) == <<DigitChar(n \div 100)>> \o Pad2(n % 100)

Pad4(n) == <<DigitChar(n \div 1000)>> \o Pad3(n % 1000)

\* Date.prototype.toISOString: YYYY-MM-DDTHH:mm:ss.sssZ
ToISOString(t) ==
    LET c == YMDFromDay(t.day)
        h == t.ms \div 3600000
        mi == (t.ms % 3600000) \div 60000
        s == (t.ms % 60000) \div 1000
        f == t.ms % 1000
    IN  Pad4(c.y) \o <<"-">> \o Pad2(c.m) \o <<"-">> \o Pad2(c.d) \o <<"T">>
          \o Pad2(h) \o <<":">> \o Pad2(mi) \o <<":">> \o Pad2(s)
          \o <<".">> \o Pad3(f) \o <<"Z">>

(***************************************************************************)
(* Credentials.  An Authorization header is the sequence of its words      *)
(* (split at single blanks): <<>> when the header is absent.  A token is   *)
(* an opaque word; jsonwebtoken's verify accepts it when it is a token     *)
(* signed with the secret and not yet expired.                             *)
(***************************************************************************)
JWT_SECRET == "secret"

GoodToken == "jwt.secret.live"

ExpiredToken == "jwt.secret.expired"

ForgedToken == "jwt.other.live"

\* the key a token is signed with and whether it has expired
JwtDecode(w) ==
    CASE w = GoodToken    -> <<[key |-> "secret", expired |-> FALSE]>>
      [] w = ExpiredToken -> <<[key |-> "secret", expired |-> TRUE]>>
      [] w = ForgedToken  -> <<[key |-> "other", expired |-> FALSE]>>
      [] OTHER            -> <<>>

\* jwt.verify(token, secret) returns (TRUE) or throws (FALSE); the token is
\* given as the words of the string handed to verify
JwtVerify(ws, secret) ==
    /\ Len(ws) = 1
    /\ JwtDecode(ws[1]) # <<>>
    /\ JwtDecode(ws[1])[1].key = secret
    /\ ~JwtDecode(ws[1])[1].expired

\* authHeader?.startsWith("Bearer ")
StartsWithBearer(h) == Len(h) >= 2 /\ h[1] = "Bearer"

\* adminAuth of the second revision: TRUE when next() is called, FALSE when
\* it answers 401
AdminAuth(h) ==
    IF ~StartsWithBearer(h) THEN FALSE ELSE JwtVerify(<<h[2]>>, JWT_SECRET)

\* adminAuth of the fourth revision: a header that does not start with
\* "Bearer " is taken as the token itself
AdminAuthLegacy(h) ==
    IF h = <<>> \/ h = <<"">>
    THEN FALSE
    ELSE JwtVerify(IF StartsWithBearer(h) THEN <<h[2]>> ELSE h, JWT_SECRET)

GoodHeader == <<"Bearer", GoodToken>>

\* absent, no scheme, another scheme, expired, signed with another secret
BadHeaders ==
    { <<>>, <<GoodToken>>, <<"Basic", GoodToken>>,
      <<"Bearer", ExpiredToken>>, <<"Bearer", ForgedToken>> }

Headers == {GoodHeader} \cup BadHeaders

(***************************************************************************)
(* Request payloads.                                                       *)
(***************************************************************************)
Chars(n, c) == [i \in 1..n |-> c]

D1 == <<"2", "0", "2", "6", "-", "0", "2", "-", "1", "0">>

D2 == <<"2", "0", "2", "4", "-", "0", "2", "-", "2", "9">>

\* matches the pattern, is no calendar date, and the engine takes it
D30 == <<"2", "0", "2", "6", "-", "0", "2", "-", "3", "0">>

\* matches the pattern and is rejected by the engine
D13 == <<"2", "0", "2", "6", "-", "1", "3", "-", "0", "1">>

TimeOfDay == <<"T", "0", "0", ":", "0", "0", ":", "0", "0", "Z">>

\* the first day of a year: its midnight at UTC+5:30 lies in the year before
DNY == <<"2", "0", "2", "5", "-", "0", "1", "-", "0", "1">>

\* D1 and DNY with a time of day; a date with one-digit fields; other days
OtherDates ==
    { D1 \o TimeOfDay, DNY \o <<"T", "x", "T">>,
      <<"2", "0", "2", "6", "-", "2", "-", "1", "0">>, D30, D13 }

TitleText == <<" ", "G", "S", " ">>

\* 2026-02-10T09:00:00.000Z and one and two hours later, as new Date(...)
\* of the supplied startTime or endTime gives them
T0900 == [day |-> DayFromYMD(2026, 2, 10), ms |-> 9 * 3600000]

T1000 == [day |-> DayFromYMD(2026, 2, 10), ms |-> 10 * 3600000]

\* The questions array of a request is described by its length and by the
\* shape of its entries; QuestionsOf builds the array.
QuestionShapes ==
    { "plain",          \* no entry has a questionNumber
      "numbered",       \* entry i has questionNumber 2 * i
      "zero",           \* entry 3 has questionNumber 0
      "negative",       \* entry 3 has questionNumber -1
      "noStatement",    \* entry 2 has a blank questionStatement
      "noOption",       \* entry 2 has no options.option3
      "badCorrect" }    \* entry 2 has correctOption "option5"

OptionTexts ==
    [option1 |-> <<<<" ", "a">>>>, option2 |-> <<<<"b">>>>,
     option3 |-> <<<<"c", " ">>>>, option4 |-> <<<<"d">>>>]

PlainEntry ==
    [questionNumber |-> <<>>, questionStatement |-> <<<<" ", "Q", "?", " ">>>>,
     options |-> <<OptionTexts>>, correctOption |-> <<"option2">>]

Entry(shape, i) ==
    CASE shape = "numbered" -> [PlainEntry EXCEPT !.questionNumber = <<2 * i>>]
      [] shape = "zero" /\ i = 3 -> [PlainEntry EXCEPT !.questionNumber = <<0>>]
      [] shape = "negative" /\ i = 3 ->
             [PlainEntry EXCEPT !.questionNumber = <<-1>>]
      [] shape = "noStatement" /\ i = 2 ->
             [PlainEntry EXCEPT !.questionStatement = <<<<" ", " ">>>>]
      [] shape = "noOption" /\ i = 2 ->
             [PlainEntry EXCEPT !.options = <<[OptionTexts EXCEPT !.option3 = <<>>]>>]
      [] shape = "badCorrect" /\ i = 2 ->
             [PlainEntry EXCEPT !.correctOption = <<"option5">>]
      [] OTHER -> PlainEntry

\* req.body.questions: <<>> when it is no array
QuestionsOf(d) == IF d = <<>> THEN <<>> ELSE [i \in 1..d[1].n |-> Entry(d[1].shape, i)]

\* The request every other create request differs from in one or two fields.
\* fault: the batch write fails after storing that many documents (<<>>: it
\* does not fail).
BaseCreate ==
    [op |-> "create", auth |-> GoodHeader, title |-> <<TitleText>>,
     date |-> <<D1>>, startTime |-> <<>>, endTime |-> <<>>,
     questions |-> <<[n |-> 50, shape |-> "plain"]>>, testType |-> <<"paid">>,
     fault |-> <<>>]

Counts == {0, 49, 51, 75, 80, 100, 150}

\* Same and other date, testType and count: the requests of the service
CreateRequests ==
    { BaseCreate,
      [BaseCreate EXCEPT !.testType = <<"free">>],
      [BaseCreate EXCEPT !.questions = <<[n |-> 150, shape |-> "plain"]>>],
      [BaseCreate EXCEPT !.date = <<D2>>] }
    \cup { [BaseCreate EXCEPT !.auth = h] : h \in BadHeaders }

\* One field of the payload after the other: the requests of the validation
\* pipeline
PayloadRequests ==
    { BaseCreate }
    \cup { [BaseCreate EXCEPT !.date = <<d>>] : d \in OtherDates }
    \cup { [BaseCreate EXCEPT !.date = d] : d \in {<<>>, <<<<>>>>} }
    \cup { [BaseCreate EXCEPT !.title = t] :
             t \in {<<>>, <<<<" ", " ">>>>, <<Chars(201, "x")>>} }
    \cup { [BaseCreate EXCEPT !.testType = t] : t \in {<<>>, <<"premium">>} }
    \cup { [BaseCreate EXCEPT !.questions = <<[n |-> n, shape |-> "plain"]>>] :
             n \in Counts }
    \cup { [BaseCreate EXCEPT !.questions = <<>>] }
    \cup { [BaseCreate EXCEPT !.questions = <<[n |-> 50, shape |-> s]>>] :
             s \in QuestionShapes }
    \cup { [BaseCreate EXCEPT !.startTime = <<T0900>>, !.endTime = <<T1000>>],
           [BaseCreate EXCEPT !.startTime = <<T1000>>, !.endTime = <<T1000>>],
           [BaseCreate EXCEPT !.endTime = <<T0900>>] }
    \cup { [BaseCreate EXCEPT !.fault = <<k>>] : k \in 0..MaxFailPoint }

(***************************************************************************)
(* Responses.                                                              *)
(***************************************************************************)
Reply(status, message) ==
    [status |-> status, success |-> status = 200, message |-> message]

Unauthorized == Reply(401, "No token / Invalid/expired token")

\* What a handler leaves behind: the collections, the id counter, the response
Outcome(t, q, n, r) == [tests |-> t, questions |-> q, nextId |-> n, res |-> r]

Rejected(r) == Outcome(tests, questions, nextId, r)

(***************************************************************************)
(* POST /admin/create-test-with-questions                                  *)
(***************************************************************************)
\* !title?.trim()
TitleMissing(title) == title = <<>> \/ Trim(title[1]) = <<>>

\* !date
DateMissing(date) == date = <<>> \/ date[1] = <<>>

TestTypes == {"paid", "free"}

\* (mutant) the count rule of the first revision
allowedCountsFifty == {50}

\* const allowedCounts = [50, 150]
allowedCounts == {50, 150}

\* (mutant) the date is taken as it comes, as in the first revision
NormalizeDateVerbatim(date) == date

\* if (date.includes("T")) date = date.split("T")[0]
NormalizeDate(date) == IF Includes(date, "T") THEN SplitFirst(date, "T") ELSE date

\* (mutant) the existence check finds nothing
FindOneByDateNothing(date) == FALSE

\* await Test.findOne({ date })
FindOneByDate(date) == \E t \in tests : t.date = date

\* startTime ? new Date(new Date(startTime).getTime() - IST_OFFSET_MS)
\*           : new Date(dateObj.getTime())
StartOf(startTime, dateObj) ==
    IF startTime # <<>> THEN AddMs(startTime[1], -IST_OFFSET_MS) ELSE dateObj

\* (mutant) the default end is the next midnight
EndOfNextMidnight(endTime, dateObj) ==
    IF endTime # <<>>
    THEN AddMs(endTime[1], -IST_OFFSET_MS)
    ELSE AddMs(dateObj, MS_PER_DAY)

\* endTime ? new Date(new Date(endTime).getTime() - IST_OFFSET_MS)
\*         : new Date(dateObj.getTime() + 24*60*60*1000 - 1000)
EndOf(endTime, dateObj) ==
    IF endTime # <<>>
    THEN AddMs(endTime[1], -IST_OFFSET_MS)
    ELSE AddMs(dateObj, MS_PER_DAY - 1000)

\* testSchema: title is at most 200 characters (the other paths were checked
\* by the handler)
TestValid(doc) == Len(doc.title) <= 200

\* q.questionNumber || idx + 1
QuestionNumberOf(q, idx) ==
    IF q.questionNumber # <<>> /\ q.questionNumber[1] # 0
    THEN q.questionNumber[1]
    ELSE idx

\* String(x || "").trim() of an optional string
TrimOr(x) == IF x = <<>> THEN <<>> ELSE Trim(x[1])

\* String(q.options?.optionN || "").trim()
OptionOf(q, name) == IF q.options = <<>> THEN <<>> ELSE TrimOr(q.options[1][name])

\* questions.map((q, idx) => ({ ... })) for the entry at 1-based place idx
QDoc(testId, q, idx) ==
    [_id |-> <<testId, idx>>,
     testId |-> testId,
     questionNumber |-> QuestionNumberOf(q, idx),
     questionStatement |-> TrimOr(q.questionStatement),
     options |-> [option1 |-> OptionOf(q, "option1"),
                  option2 |-> OptionOf(q, "option2"),
                  option3 |-> OptionOf(q, "option3"),
                  option4 |-> OptionOf(q, "option4")],
     correctOption |-> q.correctOption]

OptionNames == {"option1", "option2", "option3", "option4"}

\* questionSchema of the second revision: required paths (an empty string
\* does not satisfy required), min and enum
QuestionValid(doc) ==
    /\ doc.questionNumber >= 1
    /\ doc.questionStatement # <<>>
    /\ \A o \in OptionNames : doc.options[o] # <<>>
    /\ doc.correctOption # <<>>
    /\ doc.correctOption[1] \in OptionNames

\* await Question.insertMany(qDocs): every document is validated before
\* anything is sent; the write stores the documents in order and, when it
\* fails, the ones before the failure stay.  [stored, ok]
InsertMany(qDocs, fault) ==
    IF \E i \in 1..Len(qDocs) : ~QuestionValid(qDocs[i])
    THEN [stored |-> {}, ok |-> FALSE]
    ELSE IF fault # <<>> /\ fault[1] < Len(qDocs)
         THEN [stored |-> {qDocs[i] : i \in 1..fault[1]}, ok |-> FALSE]
         ELSE [stored |-> {qDocs[i] : i \in 1..Len(qDocs)}, ok |-> TRUE]

\* (mutant) the failure is swallowed: the caller is told of a success
CatchCreateSilently(message) ==
    [status |-> 200, success |-> TRUE, message |-> message]

\* catch (err): res.status(500).json({ success: false, message })
CatchCreate(message) == Reply(500, message)

\* The writes of the handler, for a request that passed its checks:
\* Test.create, then Question.insertMany, then the response.
CreateWrites(r) ==
    LET date == NormalizeDate(r.date[1])
        dateObj == ParseDateIST(date)
        array == QuestionsOf(r.questions)
        numQuestions == Len(array)
        test == [_id |-> nextId,
                 title |-> Trim(r.title[1]),
                 date |-> date,
                 startTime |-> StartOf(r.startTime, dateObj),
                 endTime |-> EndOf(r.endTime, dateObj),
                 totalQuestions |-> numQuestions,
                 testType |-> r.testType[1]]
    IN
    IF ~TestValid(test)
    THEN Rejected(CatchCreate("Test validation failed"))
    ELSE LET qDocs == [i \in 1..numQuestions |-> QDoc(test._id, array[i], i)]
             batch == InsertMany(qDocs, r.fault)
         IN  Outcome(tests \cup {test}, questions \cup batch.stored, nextId + 1,
                     IF batch.ok
                     THEN [status |-> 200, success |-> TRUE,
                           message |-> "Test created successfully",
                           testId |-> test._id, date |-> date,
                           totalQuestions |-> numQuestions,
                           testType |-> r.testType[1]]
                     ELSE CatchCreate("Creation failed"))

\* The checks of the handler, adminAuth first and Test.findOne last: <<>>
\* when the request passes them, else the response that rejects it.
CreateChecks(r) ==
    IF ~AdminAuth(r.auth) THEN <<Unauthorized>>
    ELSE IF \/ TitleMissing(r.title)
            \/ DateMissing(r.date)
            \/ r.questions = <<>>
            \/ r.testType = <<>>
            \/ r.testType[1] \notin TestTypes
    THEN <<Reply(400, "title, date, questions array, and testType are required")>>
    ELSE IF Len(QuestionsOf(r.questions)) \notin allowedCounts
    THEN <<Reply(400, "Allowed question counts: 50 or 150 only")>>
    ELSE LET date == NormalizeDate(r.date[1]) IN
    IF ~MatchesDatePattern(date)
    THEN <<Reply(400, "Date must be YYYY-MM-DD")>>
    ELSE IF IsNaN(ParseDateIST(date))
    THEN <<Reply(400, "Invalid date")>>
    ELSE IF FindOneByDate(date)
    THEN <<Reply(409, "Test already exists for this date")>>
    ELSE <<>>

CreateTestWithQuestions(r) ==
    IF CreateChecks(r) # <<>>
    THEN Rejected(CreateChecks(r)[1])
    ELSE CreateWrites(r)

(***************************************************************************)
(* GET /admin/tests                                                        *)
(***************************************************************************)
\* the order of characters in a date string
CharRank(c) == IF IsDigit(c) THEN DigitVal(c) + 1 ELSE 0

\* a < b as strings
StringLess(a, b) ==
    \E i \in 1..Len(b) :
        /\ \A j \in 1..(i - 1) : j <= Len(a) /\ a[j] = b[j]
        /\ (i > Len(a) \/ CharRank(a[i]) < CharRank(b[i]))

RECURSIVE SortByDateDesc(_)
\* Test.find().sort({ date: -1 }): equal dates keep the order of insertion
SortByDateDesc(S) ==
    IF S = {} THEN <<>>
    ELSE LET first == CHOOSE t \in S : \A u \in S \ {t} :
                          \/ StringLess(u.date, t.date)
                          \/ (u.date = t.date /\ t._id < u._id)
         IN  <<first>> \o SortByDateDesc(S \ {first})

\* tests.map(t => ({ ...t, startTimeIST, endTimeIST }))
WithIST(t) ==
    [_id |-> t._id, title |-> t.title, date |-> t.date,
     startTime |-> t.startTime, endTime |-> t.endTime,
     totalQuestions |-> t.totalQuestions, testType |-> t.testType,
     startTimeIST |-> ToISOString(AddMs(t.startTime, IST_OFFSET_MS)),
     endTimeIST |-> ToISOString(AddMs(t.endTime, IST_OFFSET_MS))]

ListTests(r) ==
    IF ~AdminAuth(r.auth) THEN Rejected(Unauthorized)
    ELSE LET sorted == SortByDateDesc(tests)
         IN  Rejected([status |-> 200, success |-> TRUE,
                       tests |-> [i \in 1..Len(sorted) |-> WithIST(sorted[i])]])

(***************************************************************************)
(* DELETE /admin/delete-test/:testId                                       *)
(***************************************************************************)
\* An identifier in a path is a number: 0 stands for a string that is no
\* ObjectId, which Mongoose refuses to cast (the query throws).
IsObjectId(id) == id >= 1

\* no Test ever has this identifier
GhostId == MaxIds + 1

\* (mutant) the questions of the test are left behind
DeleteManyByTestNothing(testId) == questions

\* await Question.deleteMany({ testId })
DeleteManyByTest(testId) == {q \in questions : q.testId # testId}

DeleteTest(r) ==
    IF ~AdminAuth(r.auth) THEN Rejected(Unauthorized)
    ELSE IF ~IsObjectId(r.testId)
    THEN Rejected(Reply(500, "Delete failed"))
    ELSE LET left == DeleteManyByTest(r.testId)
             result == {t \in tests : t._id = r.testId}
         IN  IF result = {}
             THEN Outcome(tests, left, nextId, Reply(404, "Test not found"))
             ELSE Outcome(tests \ result, left, nextId,
                          Reply(200, "Test & questions deleted"))

(***************************************************************************)
(* GET / and POST /admin/login                                             *)
(***************************************************************************)
Health(r) == Rejected(Reply(200, "Admin Backend Running"))

\* bcrypt: a hash of a password, and bcrypt.compare
Hash(password) == <<"bcrypt", password>>

BcryptCompare(password, hash) == hash = Hash(password)

AdminEmail == <<"a", "@", "b">>

\* the Admin collection, provisioned outside these endpoints
Admins == {[_id |-> "admin", email |-> AdminEmail, password |-> Hash("admin123")]}

LowerChar(c) == CASE c = "A" -> "a" [] c = "B" -> "b" [] OTHER -> c

\* email.toLowerCase().trim()
NormalizeEmail(e) == Trim([i \in 1..Len(e) |-> LowerChar(e[i])])

Login(r) ==
    IF r.email = <<>> \/ r.email[1] = <<>> \/ r.password = <<>> \/ r.password[1] = ""
    THEN Rejected(Reply(400, "Email & password required"))
    ELSE LET found == {a \in Admins : a.email = NormalizeEmail(r.email[1])}
         IN  IF found = {}
             THEN Rejected(Reply(401, "Admin not found"))
             ELSE IF ~BcryptCompare(r.password[1], (CHOOSE a \in found : TRUE).password)
             THEN Rejected(Reply(401, "Wrong password"))
             ELSE Rejected([status |-> 200, success |-> TRUE, token |-> GoodToken])

(***************************************************************************)
(* POST /admin/add-question/:testId, DELETE /admin/delete-question/:id and *)
(* GET /admin/dashboard (fourth revision)                                  *)
(***************************************************************************)
QuestionBody ==
    [questionNumber |-> 7, questionStatement |-> <<"Q", "7">>,
     options |-> [option1 |-> <<"a">>, option2 |-> <<"b">>,
                  option3 |-> <<"c">>, option4 |-> <<"d">>],
     correctOption |-> <<"option1">>]

\* Test.findByIdAndUpdate(testId, { $inc: { totalQuestions: by } })
IncTotalQuestions(testId, by) ==
    { IF t._id = testId
      THEN [t EXCEPT !.totalQuestions = t.totalQuestions + by]
      ELSE t : t \in tests }

AddQuestion(r) ==
    IF ~AdminAuthLegacy(r.auth) THEN Rejected([status |-> 401, message |-> "No token provided / Invalid token"])
    ELSE LET question == [_id |-> <<nextId, 0>>,
                          testId |-> r.testId,
                          questionNumber |-> r.body.questionNumber,
                          questionStatement |-> r.body.questionStatement,
                          options |-> r.body.options,
                          correctOption |-> r.body.correctOption]
         IN  Outcome(IncTotalQuestions(r.testId, 1), questions \cup {question},
                     nextId + 1, [status |-> 200, question |-> question])

\* await Question.findByIdAndDelete(req.params.id)
DeleteQuestion(r) ==
    IF ~AdminAuthLegacy(r.auth) THEN Rejected([status |-> 401, message |-> "No token provided / Invalid token"])
    ELSE Outcome(tests, {q \in questions : q._id # r.id}, nextId,
                 [status |-> 200, message |-> "Question Deleted Successfully"])

Dashboard(r) ==
    IF ~AdminAuthLegacy(r.auth) THEN Rejected([status |-> 401, message |-> "No token provided / Invalid token"])
    ELSE Rejected([status |-> 200, totalTests |-> Cardinality(tests),
                   totalQuestions |-> Cardinality(questions)])

(***************************************************************************)
(* The service.                                                            *)
(***************************************************************************)
\* (mutant) a connect that is under way is not seen
ShouldConnectUnlessOpen(state) == state # 1

\* if (mongoose.connection.readyState >= 1) return: 0 is disconnected, 1
\* connected, 2 connecting
ShouldConnect(state) == ~(state >= 1)

\* connectDB of the second revision, from its call to its return
ConnectDB == IF ShouldConnect(readyState) THEN 1 ELSE readyState

Clients == 1..MaxClients

\* identifiers a caller can name: those handed out so far, one that never
\* is, and (where the handler catches the cast error) a malformed one
KnownIds == 1..(nextId - 1) \cup {GhostId}

\* identifiers of Question documents a caller can name: those add-question
\* handed out, and ones no Question has
QuestionIds == {<<t, 0>> : t \in KnownIds}

Init ==
    /\ tests = {}
    /\ questions = {}
    /\ nextId = 1
    /\ readyState = 0
    /\ req = [op |-> "none"]
    /\ res = [status |-> 0]
    /\ inflight = {}
    /\ callers = [c \in Clients |-> "idle"]
    /\ connects = 0

\* the request r was handled with outcome out; connected: the handler body
\* ran connectDB
Handled(r, out, connected) ==
    /\ out.nextId <= MaxIds + 1
    /\ req' = r
    /\ res' = out.res
    /\ tests' = out.tests
    /\ questions' = out.questions
    /\ nextId' = out.nextId
    /\ readyState' = IF connected THEN ConnectDB ELSE readyState
    /\ connects' = IF connected /\ ShouldConnect(readyState)
                   THEN connects + 1
                   ELSE connects
    /\ UNCHANGED <<inflight, callers>>

HealthCheck ==
    \E r \in {[op |-> "health", auth |-> <<>>]} :
        Handled(r, Health(r), TRUE)

AdminLogin ==
    \E r \in {[op |-> "login", auth |-> <<>>, email |-> e, password |-> p] :
                e \in {<<<<" ", "A", "@", "B", " ">>>>, <<<<"b", "@", "a">>>>},
                p \in {<<>>, <<"admin123">>, <<"guess">>}} :
        Handled(r, Login(r), TRUE)

CreateTest ==
    \E r \in CreateRequests :
        Handled(r, CreateTestWithQuestions(r), AdminAuth(r.auth))

GetTests ==
    \E r \in {[op |-> "list", auth |-> h] : h \in Headers} :
        Handled(r, ListTests(r), AdminAuth(r.auth))

RemoveTest ==
    \E r \in {[op |-> "deleteTest", auth |-> GoodHeader, testId |-> t] :
                t \in KnownIds \cup {0}}
             \cup {[op |-> "deleteTest", auth |-> h, testId |-> t] :
                h \in BadHeaders, t \in {1}} :
        Handled(r, DeleteTest(r), AdminAuth(r.auth))

PostQuestion ==
    \E r \in {[op |-> "addQuestion", auth |-> GoodHeader, testId |-> t,
               body |-> QuestionBody] : t \in KnownIds}
             \cup {[op |-> "addQuestion", auth |-> h, testId |-> GhostId,
                    body |-> QuestionBody] : h \in BadHeaders} :
        Handled(r, AddQuestion(r), FALSE)

RemoveQuestion ==
    \E r \in {[op |-> "deleteQuestion", auth |-> GoodHeader, id |-> q] :
                q \in QuestionIds}
             \cup {[op |-> "deleteQuestion", auth |-> h, id |-> q] :
                h \in BadHeaders, q \in {<<GhostId, 0>>}} :
        Handled(r, DeleteQuestion(r), FALSE)

GetDashboard ==
    \E r \in {[op |-> "dashboard", auth |-> h] : h \in Headers} :
        Handled(r, Dashboard(r), FALSE)

\* The service: every endpoint, every kind of credential.
Next ==
    \/ HealthCheck
    \/ AdminLogin
    \/ CreateTest
    \/ GetTests
    \/ RemoveTest
    \/ PostQuestion
    \/ RemoveQuestion
    \/ GetDashboard

Spec == Init /\ [][Next]_vars

\* The validation pipeline of create-test-with-questions: every kind of
\* payload, sent by an administrator who also lists and deletes tests.
SubmitPayload ==
    \E r \in PayloadRequests :
        Handled(r, CreateTestWithQuestions(r), AdminAuth(r.auth))

ListAll ==
    Handled([op |-> "list", auth |-> GoodHeader],
            ListTests([op |-> "list", auth |-> GoodHeader]), TRUE)

DropTest ==
    \E t \in tests :
        Handled([op |-> "deleteTest", auth |-> GoodHeader, testId |-> t._id],
                DeleteTest([op |-> "deleteTest", auth |-> GoodHeader,
                            testId |-> t._id]), TRUE)

NextPipeline == SubmitPayload \/ ListAll \/ DropTest

SpecPipeline == Init /\ [][NextPipeline]_vars

\* Requests that run at the same time.  A handler is suspended at every
\* await; the two awaits between which another request matters are the one of
\* Test.findOne and the one of Test.create.
RaceRequests ==
    { BaseCreate,
      [BaseCreate EXCEPT !.testType = <<"free">>],
      [BaseCreate EXCEPT !.date = <<D2>>] }

\* A client's request runs up to the answer of Test.findOne: it is rejected
\* there, or it goes on to its writes.
BeginCreate ==
    \E c \in Clients, r \in RaceRequests :
        /\ ~\E p \in inflight : p.client = c
        /\ IF CreateChecks(r) # <<>>
           THEN Handled(r, Rejected(CreateChecks(r)[1]), TRUE)
           ELSE /\ inflight' = inflight \cup {[client |-> c, request |-> r]}
                /\ readyState' = ConnectDB
                /\ connects' = IF ShouldConnect(readyState)
                               THEN connects + 1
                               ELSE connects
                /\ UNCHANGED <<tests, questions, nextId, req, res, callers>>

\* A request that passed its checks writes its Test and its questions and
\* answers.
FinishCreate ==
    \E p \in inflight :
        LET out == CreateWrites(p.request)
        IN  /\ out.nextId <= MaxIds + 1
            /\ req' = p.request
            /\ res' = out.res
            /\ tests' = out.tests
            /\ questions' = out.questions
            /\ nextId' = out.nextId
            /\ inflight' = inflight \ {p}
            /\ UNCHANGED <<readyState, callers, connects>>

NextRace == BeginCreate \/ FinishCreate \/ DropTest

SpecRace == Init /\ [][NextRace]_vars

\* The connection.  A call of connectDB reads readyState and, when it has to,
\* calls mongoose.connect, which sets readyState to connecting before it
\* returns its promise; the call then waits for the promise.
CallConnectDB ==
    \E c \in Clients :
        /\ callers[c] = "idle"
        /\ IF ShouldConnect(readyState)
           THEN /\ connects < MaxConnects
                /\ connects' = connects + 1
                /\ readyState' = 2
                /\ callers' = [callers EXCEPT ![c] = "awaiting"]
           ELSE /\ callers' = [callers EXCEPT ![c] = "returned"]
                /\ UNCHANGED <<readyState, connects>>
        /\ UNCHANGED <<tests, questions, nextId, req, res, inflight>>

\* the promise of mongoose.connect is resolved
ConnectResolves ==
    /\ readyState = 2
    /\ readyState' = 1
    /\ callers' = [c \in Clients |->
                     IF callers[c] = "awaiting" THEN "returned" ELSE callers[c]]
    /\ UNCHANGED <<tests, questions, nextId, req, res, inflight, connects>>

\* the promise of mongoose.connect is rejected (no server within
\* serverSelectionTimeoutMS): connectDB throws
ConnectRejects ==
    /\ readyState = 2
    /\ readyState' = 0
    /\ callers' = [c \in Clients |->
                     IF callers[c] = "awaiting" THEN "threw" ELSE callers[c]]
    /\ UNCHANGED <<tests, questions, nextId, req, res, inflight, connects>>

\* the handler that called connectDB has answered; the client's next request
ClientReturns ==
    \E c \in Clients :
        /\ callers[c] \in {"returned", "threw"}
        /\ callers' = [callers EXCEPT ![c] = "idle"]
        /\ UNCHANGED <<tests, questions, nextId, readyState, req, res, inflight,
                       connects>>

NextConnect == CallConnectDB \/ ConnectResolves \/ ConnectRejects \/ ClientReturns

SpecConnect == Init /\ [][NextConnect]_vars

(***************************************************************************)
(* Properties.                                                             *)
(***************************************************************************)
\* a create-test-with-questions request of an administrator
IsCreate(r) == r.op = "create" /\ r.auth = GoodHeader

\* the Question documents of a test
QuestionsOfTest(id) == {q \in questions : q.testId = id}

\* C1 as stated, with the question count in the place of the phase it would
\* decide: a create is rejected with 409, persisting nothing, exactly when a
\* Test with the same date, testType and count exists, and succeeds otherwise,
\* leaving the earlier Tests in place.
C1_CompositeKeyDecides ==
    [][ IsCreate(req') =>
          IF \E t \in tests : /\ t.date = req'.date[1]
                              /\ t.testType = req'.testType[1]
                              /\ t.totalQuestions = req'.questions[1].n
          THEN res'.status = 409 /\ tests' = tests /\ questions' = questions
          ELSE res'.status = 200 /\ tests \subseteq tests'
                 /\ \E t \in tests' \ tests : t._id = res'.testId ]_vars

\* C1 (amended): a create is rejected with 409, persisting nothing, exactly
\* when a Test with the same date exists, whatever its testType and count;
\* with a date no Test has it succeeds and the earlier Tests stay.
C1_SameDateConflicts ==
    [][ IsCreate(req') =>
          IF \E t \in tests : t.date = req'.date[1]
          THEN res'.status = 409 /\ tests' = tests /\ questions' = questions
          ELSE /\ res'.status = 200
               /\ tests \subseteq tests'
               /\ \E t \in tests' \ tests :
                      /\ t._id = res'.testId
                      /\ t.date = req'.date[1]
                      /\ t.testType = req'.testType[1] ]_vars

\* C1 witness: a create with the date of an existing Test and another
\* testType was answered 409 while a Test of another date exists beside it.
C1_Witness ==
    /\ IsCreate(req)
    /\ res.status = 409
    /\ \E t \in tests : t.date = req.date[1] /\ t.testType # req.testType[1]
    /\ \E t \in tests : t.date # req.date[1]

\* C2: after delete-test answered success for an identifier, no Test has that
\* identifier and no Question has it as testId.
C2_DeleteCascades ==
    (req.op = "deleteTest" /\ res.status = 200) =>
        /\ ~\E t \in tests : t._id = req.testId
        /\ QuestionsOfTest(req.testId) = {}

\* C2 witness: a delete succeeded and another Test with its questions remains.
C2_Witness ==
    /\ req.op = "deleteTest"
    /\ res.status = 200
    /\ \E t \in tests : QuestionsOfTest(t._id) # {}

\* C3 as stated: delete-test with a (well-formed) identifier no Test has
\* answers 404 and leaves both collections unchanged.
C3_MissingTestNotFound ==
    [][ (req'.op = "deleteTest" /\ req'.auth = GoodHeader
           /\ IsObjectId(req'.testId)
           /\ ~\E t \in tests : t._id = req'.testId) =>
          (res'.status = 404 /\ tests' = tests /\ questions' = questions) ]_vars

\* a create request that differs from the base request in its questions only
CountRequest(r) ==
    /\ IsCreate(r)
    /\ r.questions # <<>>
    /\ r = [BaseCreate EXCEPT !.questions = <<[n |-> r.questions[1].n, shape |-> "plain"]>>]

\* C4 as stated (phases left aside): the count check passes exactly the
\* lengths 75, 100 and 80; every other length is answered 400 and nothing is
\* persisted.
C4_CountsOfThePhases ==
    [][ CountRequest(req') =>
          IF req'.questions[1].n \in {75, 100, 80}
          THEN res'.status \in {200, 409}
          ELSE res'.status = 400 /\ tests' = tests /\ questions' = questions ]_vars

\* C4 (amended): the count check passes exactly the lengths 50 and 150 (a
\* stored Test then has totalQuestions equal to the length, that many
\* questions and no phase); every other length, 75, 100 and 80 included, is
\* answered 400 with the message naming 50 and 150, and nothing is persisted.
C4_FiftyOrHundredFifty ==
    [][ CountRequest(req') =>
          IF req'.questions[1].n \in {50, 150}
          THEN \/ res'.status = 409 /\ tests' = tests /\ questions' = questions
               \/ /\ res'.status = 200
                  /\ \E t \in tests' \ tests :
                        /\ t.totalQuestions = req'.questions[1].n
                        /\ DOMAIN t = {"_id", "title", "date", "startTime",
                                       "endTime", "totalQuestions", "testType"}
                        /\ Cardinality({q \in questions' : q.testId = t._id})
                              = req'.questions[1].n
          ELSE /\ res'.status = 400
               /\ res'.message = "Allowed question counts: 50 or 150 only"
               /\ tests' = tests
               /\ questions' = questions ]_vars

\* C4 witness: 150 questions were accepted and stored.
C4_Witness ==
    /\ CountRequest(req)
    /\ req.questions[1].n = 150
    /\ res.status = 200
    /\ Cardinality(QuestionsOfTest(res.testId)) = 150

\* an endpoint behind the authentication gate
Protected(r) ==
    r.op \in {"create", "addQuestion", "list", "dashboard", "deleteTest",
              "deleteQuestion"}

\* C5 as stated: a request to a protected endpoint without a valid
\* "Bearer <token>" credential is answered 401 and changes nothing (not even
\* the connection, which the handler body would open); health check and
\* login answer without a credential.
C5_GateRejects ==
    [][ /\ (Protected(req') /\ req'.auth \in BadHeaders) =>
              /\ res'.status = 401
              /\ UNCHANGED <<tests, questions, nextId, readyState>>
        /\ (req'.op \in {"health", "login"} /\ req'.auth = <<>>) =>
              res'.status # 0 ]_vars

\* the date a raw date string starts with
BaseOf(raw) == SubSeq(raw, 1, 10)

DaysInMonth(y, m) ==
    IF m = 2
    THEN IF y % 4 = 0 /\ (y % 100 # 0 \/ y % 400 = 0) THEN 29 ELSE 28
    ELSE IF m \in {4, 6, 9, 11} THEN 30 ELSE 31

\* s has the form YYYY-MM-DD and names a day of the calendar
RealCalendarDate(s) ==
    /\ MatchesDatePattern(s)
    /\ LET y == 1000 * DigitVal(s[1]) + 100 * DigitVal(s[2])
                  + 10 * DigitVal(s[3]) + DigitVal(s[4])
           m == 10 * DigitVal(s[6]) + DigitVal(s[7])
           d == 10 * DigitVal(s[9]) + DigitVal(s[10])
       IN  m \in 1..12 /\ d \in 1..DaysInMonth(y, m)

\* b.getTime() - a.getTime(), for instants at most a day apart
MsBetween(a, b) == (b.day - a.day) * MS_PER_DAY + (b.ms - a.ms)

\* C6: a successful create without startTime and endTime, for a calendar date
\* D, stores a window that is displayed at UTC+5:30 as D 00:00:00 through
\* D 23:59:59 and is 86399 seconds long.
C6_DefaultWindow ==
    (/\ IsCreate(req)
     /\ res.status = 200
     /\ req.startTime = <<>>
     /\ req.endTime = <<>>
     /\ RealCalendarDate(BaseOf(req.date[1]))) =>
        \E t \in tests :
            /\ t._id = res.testId
            /\ WithIST(t).startTimeIST
                 = BaseOf(req.date[1])
                     \o <<"T", "0", "0", ":", "0", "0", ":", "0", "0", ".", "0", "0", "0", "Z">>
            /\ WithIST(t).endTimeIST
                 = BaseOf(req.date[1])
                     \o <<"T", "2", "3", ":", "5", "9", ":", "5", "9", ".", "0", "0", "0", "Z">>
            /\ MsBetween(t.startTime, t.endTime) = 86399 * 1000

\* C6 witness: a default window was stored for the first day of a year, whose
\* start lies in the year before when read in UTC.
C6_Witness ==
    /\ IsCreate(req)
    /\ res.status = 200
    /\ req.startTime = <<>>
    /\ req.endTime = <<>>
    /\ BaseOf(req.date[1]) = DNY
    /\ \E t \in tests :
           /\ t._id = res.testId
           /\ ToISOString(t.startTime)
                = <<"2", "0", "2", "4", "-", "1", "2", "-", "3", "1", "T",
                    "1", "8", ":", "3", "0", ":", "0", "0", ".", "0", "0", "0", "Z">>

\* a create request that differs from the base request in its date only
DateRequest(r) ==
    IsCreate(r) /\ r.date # <<>> /\ r = [BaseCreate EXCEPT !.date = r.date]

\* raw is a date of the form YYYY-MM-DD, alone or followed by "T" and more
DatedForm(raw) ==
    /\ Len(raw) >= 10
    /\ MatchesDatePattern(BaseOf(raw))
    /\ (Len(raw) = 10 \/ raw[11] = "T")

\* C7: a date D of the form YYYY-MM-DD, supplied alone or followed by "T" and
\* a suffix, passes the format check and is stored (and reported) as D;
\* normalizing a normalized date changes nothing.
C7_DateNormalized ==
    (DateRequest(req) /\ DatedForm(req.date[1])) =>
        /\ res.status \in {200, 409, 400}
        /\ res.status = 400 => res.message = "Invalid date"
        /\ res.status = 200 =>
              /\ res.date = BaseOf(req.date[1])
              /\ \E t \in tests :
                     t._id = res.testId /\ t.date = BaseOf(req.date[1])
        /\ res.status = 409 => \E t \in tests : t.date = BaseOf(req.date[1])
        /\ NormalizeDate(NormalizeDate(req.date[1])) = NormalizeDate(req.date[1])
        /\ NormalizeDate(BaseOf(req.date[1])) = BaseOf(req.date[1])

\* C7 witness: a date with a time of day was stored as the date alone.
C7_Witness ==
    /\ DateRequest(req)
    /\ Len(req.date[1]) > 10
    /\ res.status = 200
    /\ \E t \in tests : t._id = res.testId /\ t.date = BaseOf(req.date[1])

\* C8 as stated: after a successful create the i-th entry is stored with
\* questionNumber i when it supplies none, and with the supplied value when
\* it supplies one.
C8_QuestionNumbers ==
    (IsCreate(req) /\ res.status = 200) =>
        \A i \in 1..req.questions[1].n :
            \E q \in questions :
                /\ q._id = <<res.testId, i>>
                /\ q.questionNumber =
                     IF Entry(req.questions[1].shape, i).questionNumber = <<>>
                     THEN i
                     ELSE Entry(req.questions[1].shape, i).questionNumber[1]

\* C9 as stated: a create rejected for its input (400, or 500 without a
\* failure of the store) has written neither a Test nor a Question.
C9_ValidationBeforeWrites ==
    [][ (IsCreate(req') /\ req'.fault = <<>> /\ res'.status \in {400, 500}) =>
          (tests' = tests /\ questions' = questions) ]_vars

\* C10 as stated: of the questions a create writes for its Test, either all
\* are stored or none is.
C10_BatchAllOrNothing ==
    \A t \in tests :
        Cardinality(QuestionsOfTest(t._id)) \in {0, t.totalQuestions}

\* C11 as stated: every stored Question belongs to a stored Test.
C11_NoOrphanQuestions ==
    \A q \in questions : \E t \in tests : t._id = q.testId

\* a.getTime() < b.getTime()
Before(a, b) == a.day < b.day \/ (a.day = b.day /\ a.ms < b.ms)

\* a create request that differs from the base request in its times only
TimeRequest(r) ==
    /\ IsCreate(r)
    /\ r = [BaseCreate EXCEPT !.startTime = r.startTime, !.endTime = r.endTime]

\* C12 as stated: a create for a free date whose window, as the handler
\* computes it, does not end strictly after it starts is answered 400 and
\* persists nothing; every stored Test ends after it starts.
C12_InvalidTimeRange ==
    [][ /\ (/\ TimeRequest(req')
            /\ ~FindOneByDate(req'.date[1])
            /\ ~Before(StartOf(req'.startTime, ParseDateIST(req'.date[1])),
                       EndOf(req'.endTime, ParseDateIST(req'.date[1])))) =>
              (res'.status = 400 /\ tests' = tests /\ questions' = questions)
        /\ \A t \in tests' : Before(t.startTime, t.endTime) ]_vars

\* C16 as stated: after every request the totalQuestions of every stored Test
\* is the number of stored Questions of that Test, and delete-question for an
\* identifier no Question has is answered 404.
C16_TotalQuestionsCounts ==
    [][ /\ \A t \in tests' :
              t.totalQuestions = Cardinality({q \in questions' : q.testId = t._id})
        /\ (/\ req'.op = "deleteQuestion"
            /\ req'.auth = GoodHeader
            /\ ~\E q \in questions : q._id = req'.id) => res'.status = 404 ]_vars

\* C13: when a create has written its Test and the batch write of its
\* questions then failed (fewer Questions of the Test are stored than the
\* request supplied), the response is a failure (success false, status 500)
\* and the Test stays stored.
C13_BatchFailureReported ==
    [][ (/\ IsCreate(req')
         /\ nextId' = nextId + 1
         /\ Cardinality({q \in questions' : q.testId = nextId})
              < Len(QuestionsOf(req'.questions))) =>
          /\ res'.success = FALSE
          /\ res'.status = 500
          /\ \E t \in tests' \ tests :
                 /\ t._id = nextId
                 /\ t.totalQuestions = Len(QuestionsOf(req'.questions)) ]_vars

\* C13 witness: the store failed after two of fifty questions; the Test is
\* stored beside them and the caller was told of the failure.
C13_Witness ==
    /\ IsCreate(req)
    /\ req.fault = <<2>>
    /\ res.status = 500
    /\ res.success = FALSE
    /\ \E t \in tests :
           /\ t._id = nextId - 1
           /\ t.date = req.date[1]
           /\ Cardinality(QuestionsOfTest(t._id)) = 2

\* C14 as stated, with the question count in the place of the phase: no two
\* stored Tests have the same date, testType and count.
C14_OneTestPerKey ==
    \A t, u \in tests :
        (/\ t.date = u.date
         /\ t.testType = u.testType
         /\ t.totalQuestions = u.totalQuestions) => t = u

\* C15 as stated: mongoose.connect is called at most once.
C15_ConnectsAtMostOnce == connects <= 1

\* C15 (amended): mongoose.connect is called only by a call of connectDB that
\* finds the connection disconnected; a call that arrives while a connect is
\* under way or the connection is open calls nothing, leaves the connection
\* as it is and returns; at most one connect is under way at a time.  (After
\* a connect that failed the next call connects again.)
C15_ConnectsOnlyWhenDisconnected ==
    [][ /\ connects' # connects =>
              (readyState = 0 /\ connects' = connects + 1 /\ readyState' = 2)
        /\ \A c \in Clients :
              (callers[c] = "idle" /\ callers'[c] # "idle" /\ readyState >= 1) =>
                  /\ callers'[c] = "returned"
                  /\ readyState' = readyState
                  /\ connects' = connects
        /\ Cardinality({c \in Clients : callers'[c] = "awaiting"}) <= 1 ]_vars

\* C15 witness: while one call waits for its connect, another call has
\* returned without connecting, and mongoose.connect was called once.
C15_Witness ==
    /\ readyState = 2
    /\ connects = 1
    /\ \E c, d \in Clients : callers[c] = "awaiting" /\ callers[d] = "returned"

====
